---- MODULE Spec2Model ----
(***************************************************************************)
(* libigvt: the display-port attach protocol (igvt_plug_display,           *)
(* igvt_unplug_display, igvt_port_plugged_p) over the vgt sysfs control     *)
(* tree, and the EDID patch (_filter_edid built on write_edid_byte).        *)
(*                                                                         *)
(* Six specifications share the variables:                                 *)
(*   Spec      one caller issuing library calls, one stdio operation per   *)
(*             step, against a control tree whose opens and writes may     *)
(*             fail;                                                       *)
(*   SpecRace  two callers of igvt_plug_display on the same port, over a   *)
(*             control tree without failures;                              *)
(*   SpecEdid  _filter_edid run one write_edid_byte at a time over a       *)
(*             family of EDID buffers;                                     *)
(*   SpecPorts the port tables (igvt_is_valid_port_p and the two           *)
(*             connector-name translations) applied to names and ordinals; *)
(*   SpecFg    igvt_set_foreground_vm against the foreground_vm control;   *)
(*   SpecLog   the logger setters and igvt_printf.                         *)
(***************************************************************************)
EXTENDS Integers, Sequences, FiniteSets, TLC

(***************************************************************************)
(* Bytes and bit operations (unsigned char arithmetic, width 8).           *)
(***************************************************************************)
ByteMod == 256

RECURSIVE BitAndN(_, _, _)
BitAndN(x, y, n) ==
    IF n = 0 THEN 0
    ELSE (IF x % 2 = 1 /\ y % 2 = 1 THEN 1 ELSE 0)
         + 2 * BitAndN(x \div 2, y \div 2, n - 1)

RECURSIVE BitOrN(_, _, _)
BitOrN(x, y, n) ==
    IF n = 0 THEN 0
    ELSE (IF x % 2 = 1 \/ y % 2 = 1 THEN 1 ELSE 0)
         + 2 * BitOrN(x \div 2, y \div 2, n - 1)

BitAnd(x, y) == BitAndN(x, y, 16)
BitOr(x, y)  == BitOrN(x, y, 16)

(***************************************************************************)
(* EDID layout used by _filter_edid.                                       *)
(***************************************************************************)
EDID_BLOCK      == 128     \* bytes of one EDID block; the most ever written
CHECKSUM_BYTE   == 127     \* 0x7f
INPUT_BYTE      == 20      \* Video Input Parameters, bit 7 = digital
FEATURE_BYTE    == 24      \* Supported Features, bits 3:4 colour, 5:7 DPMS
DESCRIPTOR_BASE == 54
DESCRIPTOR_SIZE == 18
NUM_DESCRIPTORS == 4
MAX_PIXEL_CLOCK == 16000

\* Sum of the bytes lo..hi of a buffer (halving keeps the evaluation shallow).
RECURSIVE SumRange(_, _, _)
SumRange(e, lo, hi) ==
    IF lo > hi THEN 0
    ELSE IF lo = hi THEN e[lo]
    ELSE LET mid == (lo + hi) \div 2
         IN  SumRange(e, lo, mid) + SumRange(e, mid + 1, hi)

\* Sum of the 128 bytes of the first block, modulo 256.
SumBytes(e) == SumRange(e, 0, EDID_BLOCK - 1) % ByteMod

\* A mutation a plausible slip would make: the checksum is adjusted with the
\* sign reversed (old value subtracted, new value added).
write_edid_byte_signflip(edid, byte, value) ==
    LET e1 == [edid EXCEPT ![CHECKSUM_BYTE] = (edid[CHECKSUM_BYTE] + ByteMod - edid[byte]) % ByteMod]
        e2 == [e1 EXCEPT ![byte] = value]
    IN  [e2 EXCEPT ![CHECKSUM_BYTE] = (e2[CHECKSUM_BYTE] + e2[byte]) % ByteMod]

\* A slip that drops the last store: the old value is added back to the
\* checksum and the new value is never subtracted.
write_edid_byte_nosubtract(edid, byte, value) ==
    LET e1 == [edid EXCEPT ![CHECKSUM_BYTE] = (edid[CHECKSUM_BYTE] + edid[byte]) % ByteMod]
    IN  [e1 EXCEPT ![byte] = value]

\* write_edid_byte: three stores, in the order of the source.
write_edid_byte(edid, byte, value) ==
    LET e1 == [edid EXCEPT ![CHECKSUM_BYTE] = (edid[CHECKSUM_BYTE] + edid[byte]) % ByteMod]
        e2 == [e1 EXCEPT ![byte] = value]
    IN  [e2 EXCEPT ![CHECKSUM_BYTE] = (e2[CHECKSUM_BYTE] + ByteMod - e2[byte]) % ByteMod]

\* The branch of the digital/analog reconciliation that _filter_edid takes:
\* "A" the first (analog_port set, bit 7 set), "D" the second, "N" neither.
FlagBranch(edid, analog_port) ==
    IF analog_port # 0 /\ BitAnd(edid[INPUT_BYTE], 128) # 0 THEN "A"
    ELSE IF analog_port = 0 /\ BitAnd(edid[INPUT_BYTE], 128) = 0 THEN "D"
    ELSE "N"

\* Value stored in byte 20 by the branch taken.
Flag20Value(branch) == IF branch = "A" THEN 0 ELSE 128

\* Value stored in byte 24 by the branch taken.
Flag24Value(edid, branch) ==
    IF branch = "A" THEN BitOr(BitAnd(edid[FEATURE_BYTE], 231), 8)
    ELSE BitAnd(edid[FEATURE_BYTE], 231)

\* A slip in the mask: the DPMS bits are kept and the others cleared.
DpmsValue_wrongmask(edid) == BitAnd(edid[FEATURE_BYTE], 224)

\* Value stored in byte 24 by the DPMS step.
DpmsValue(edid) == BitAnd(edid[FEATURE_BYTE], 31)

DescriptorOffset(i) == DESCRIPTOR_BASE + DESCRIPTOR_SIZE * i

\* A slip in the byte order: the clock read big-endian.
PixelClock_bigendian(edid, i) ==
    (edid[DescriptorOffset(i)] * 256 + edid[DescriptorOffset(i) + 1]) % 65536

\* unsigned short clock = timingDescriptor[0] + (timingDescriptor[1] << 8)
PixelClock(edid, i) ==
    (edid[DescriptorOffset(i)] + edid[DescriptorOffset(i) + 1] * 256) % 65536

ClockLow  == BitAnd(MAX_PIXEL_CLOCK, 255)
ClockHigh == MAX_PIXEL_CLOCK \div 256

FilterFlags(edid, analog_port) ==
    LET b == FlagBranch(edid, analog_port) IN
    IF b = "N" THEN edid
    ELSE LET e1 == write_edid_byte(edid, INPUT_BYTE, Flag20Value(b))
         IN  write_edid_byte(e1, FEATURE_BYTE, Flag24Value(e1, b))

FilterDpms(edid) == write_edid_byte(edid, FEATURE_BYTE, DpmsValue(edid))

FilterClock(edid, i) ==
    IF PixelClock(edid, i) > MAX_PIXEL_CLOCK
    THEN write_edid_byte(write_edid_byte(edid, DescriptorOffset(i), ClockLow),
                         DescriptorOffset(i) + 1, ClockHigh)
    ELSE edid

RECURSIVE FilterClocks(_, _)
FilterClocks(edid, i) ==
    IF i >= NUM_DESCRIPTORS THEN edid
    ELSE FilterClocks(FilterClock(edid, i), i + 1)

\* _filter_edid as a whole (edid_size is not used by the source).
_filter_edid(edid, edid_size, analog_port) ==
    FilterClocks(FilterDpms(FilterFlags(edid, analog_port)), 0)

\* is_port_digital: port < PORT_E
is_port_digital(port) == IF port < 4 THEN 1 ELSE 0

(***************************************************************************)
(* Text of the control attributes.  A text is a sequence of characters, so *)
(* that fprintf's trailing newline, fscanf's scanning and strcmp are       *)
(* computed and not assumed.                                               *)
(***************************************************************************)
NL == "\n"

T_connect      == <<"c","o","n","n","e","c","t">>
T_disconnect   == <<"d","i","s">> \o T_connect
T_connected    == T_connect \o <<"e","d">>
T_disconnected == T_disconnect \o <<"e","d">>

\* static const char *port_strings[], indexed by gt_port ordinal.
port_strings ==
    [p \in 0..4 |-> <<"P","O","R","T","_">> \o << <<"A","B","C","D","E">>[p + 1] >>]

\* fprintf(fd, "%s\n", s)
FormatLine(s) == s \o <<NL>>

IsSpace(ch) == ch \in {" ", NL, "\t"}

RECURSIVE SkipSpace(_)
SkipSpace(t) ==
    IF t = <<>> THEN <<>>
    ELSE IF IsSpace(Head(t)) THEN SkipSpace(Tail(t)) ELSE t

RECURSIVE TakeToken(_)
TakeToken(t) ==
    IF t = <<>> THEN <<>>
    ELSE IF IsSpace(Head(t)) THEN <<>> ELSE <<Head(t)>> \o TakeToken(Tail(t))

\* The characters fscanf(f, "%s", c) stores (without the terminating NUL);
\* <<>> when the input ends before any non-space character (fscanf != 1).
ScanToken(t) == TakeToken(SkipSpace(t))

C_SIZE == 12       \* char c[12] of igvt_port_plugged_p

\* Decimal digits, for the %d conversions of fprintf and fscanf.
Digits == <<"0", "1", "2", "3", "4", "5", "6", "7", "8", "9">>

IsDigit(ch) == \E d \in 1..10 : Digits[d] = ch

DigitValue(ch) == (CHOOSE d \in 1..10 : Digits[d] = ch) - 1

RECURSIVE FormatNat(_)
FormatNat(n) ==
    IF n < 10 THEN <<Digits[n + 1]>>
    ELSE FormatNat(n \div 10) \o <<Digits[(n % 10) + 1]>>

\* fprintf(fd, "%d", n)
FormatD(n) == IF n < 0 THEN <<"-">> \o FormatNat(-n) ELSE FormatNat(n)

\* The value of the leading digits of a text, continuing from acc.
RECURSIVE DigitsValue(_, _)
DigitsValue(t, acc) ==
    IF t = <<>> \/ ~IsDigit(Head(t)) THEN acc
    ELSE DigitsValue(Tail(t), acc * 10 + DigitValue(Head(t)))

EOF_RESULT == -1    \* EOF of stdio.h

\* fscanf(fd, "%d", &r): n is the result (1 a number was stored, 0 the input
\* does not start a number, EOF the input ended first), v the number stored.
ScanD(text) ==
    LET t    == SkipSpace(text)
        neg  == t # <<>> /\ Head(t) = "-"
        body == IF t # <<>> /\ Head(t) \in {"-", "+"} THEN Tail(t) ELSE t
    IN  IF t = <<>> THEN [n |-> EOF_RESULT, v |-> 0]
        ELSE IF body = <<>> \/ ~IsDigit(Head(body)) THEN [n |-> 0, v |-> 0]
        ELSE [n |-> 1, v |-> IF neg THEN -DigitsValue(body, 0) ELSE DigitsValue(body, 0)]

(***************************************************************************)
(* Arguments the caller draws from, and errno values.                      *)
(***************************************************************************)
EINVAL == 22
ENODEV == 19
EAGAIN == 11

GVT_MAX_PORTS == 5

RegisteredVMs == {1}            \* /sys/kernel/vgt/vm<d> exists
Domains       == {0, 1, 2}      \* 0 = dom0, 2 has no vm directory
VirtPortArgs  == {1, 4, 5}      \* PORT_B, PORT_VGA, GVT_MAX_PORTS
PhysPortArgs  == {2, 5}         \* PORT_C, GVT_MAX_PORTS
ValidPorts    == 0..(GVT_MAX_PORTS - 1)

Callers == {"c1", "c2"}

MaxCalls == 2
MaxFaults == 2

\* A slip that takes GVT_MAX_PORTS for the last port instead of the bound.
igvt_is_valid_port_p_uptomax(port) == port \in 0..GVT_MAX_PORTS

\* igvt_is_valid_port_p
igvt_is_valid_port_p(port) == port \in {0, 1, 2, 3, 4}

\* igvt_enabled_p: dom0 is never valid; otherwise stat() of the vm directory.
igvt_enabled_p(domid) == domid # 0 /\ domid \in RegisteredVMs

\* fopen of an attribute below vm<d>/PORT_x can succeed only if the path exists.
PathExists(domid, port) == domid \in RegisteredVMs /\ port \in ValidPorts

(***************************************************************************)
(* EDID buffers handed to igvt_plug_display.                               *)
(***************************************************************************)
Filler(k) == (k * 7 + 3) % ByteMod

\* A buffer of len bytes with the given input byte, feature byte and the
\* clocks of descriptors 0 and 3; skew = 0 makes the checksum of the first
\* block valid.
MkEdid(len, b20, b24, clk0, clk3, skew) ==
    LET raw == [k \in 0..(len - 1) |->
                  IF k = INPUT_BYTE THEN b20
                  ELSE IF k = FEATURE_BYTE THEN b24
                  ELSE IF k = DescriptorOffset(0) THEN clk0 % 256
                  ELSE IF k = DescriptorOffset(0) + 1 THEN clk0 \div 256
                  ELSE IF k = DescriptorOffset(3) THEN clk3 % 256
                  ELSE IF k = DescriptorOffset(3) + 1 THEN clk3 \div 256
                  ELSE IF k = CHECKSUM_BYTE THEN 0
                  ELSE Filler(k)]
    IN  [raw EXCEPT ![CHECKSUM_BYTE] = (2 * ByteMod + skew - SumBytes(raw)) % ByteMod]

PlugEdids ==
    { [data |-> MkEdid(128, 165, 255, 65535, 10000, 0), size |-> 128],
      [data |-> MkEdid(256, 37, 250, 16001, 16000, 0), size |-> 256] }

\* First n bytes of a buffer, as the sequence handed to fwrite.
FirstBytes(e, n) == [k \in 0..(n - 1) |-> e[k]]

\* A slip that drops the truncation.
EdidWriteSize_notrunc(edid_size) == edid_size

\* if (edid_size > 128) edid_size = 128;
EdidWriteSize(edid_size) == IF edid_size > EDID_BLOCK THEN EDID_BLOCK ELSE edid_size

(***************************************************************************)
(* State.                                                                  *)
(*   connection, port_override, edid   the three attributes of every       *)
(*       vm<d>/PORT_x directory of the control tree (kernel side)          *)
(*   connectedWith                     port_override and edid of each port *)
(*       as they were when "connect" last took effect on it                *)
(*   pc, call, buf                     position, arguments (edid_in: the   *)
(*       buffer as passed) and EDID buffer of each caller's current call   *)
(*   ret, crashed                      its return value / abnormal end     *)
(*   wlog                              the writes the call has issued, in  *)
(*       order, each with whether it took effect                           *)
(*   openErr, unplugErr, qres          which fopen made the call return,   *)
(*       whether the implicit unplug failed, what the plugged query saw    *)
(*   prev                              the caller's previous call, when it *)
(*       was a plug or unplug that returned 0                              *)
(*   ncalls                            calls started so far                *)
(*   nfaults                           fopen calls and writes that have    *)
(*       failed so far                                                     *)
(*   fe, fin, fanalog, fpc, fi         _filter_edid run write by write     *)
(*   tpc, tname, tport, tres           the port tables applied to a        *)
(*       connector name and a port ordinal, and their results              *)
(*   PORT_ILLEGAL                      the value of the enumerator of that *)
(*       name, which igvt.h does not declare                               *)
(*   foreground_vm                     text of the control/foreground_vm   *)
(*       attribute (kernel side)                                           *)
(*   gpc, gdomid, gn, gr, gret, glog   igvt_set_foreground_vm: position,   *)
(*       argument, the locals n and r, return value, and the reads and     *)
(*       writes of the attribute the call has done, in order               *)
(*   loggers                           static loggers[IGVT_NUM_LOGGERS]    *)
(*   lpc, lcall, lret, lsink, nsets    the logger setters and igvt_printf: *)
(*       position, the call with the loggers as they were before it, the   *)
(*       pointer returned, where the last message went, setter calls made  *)
(***************************************************************************)
VARIABLES connection, port_override, edid, connectedWith,
          pc, call, buf, ret, crashed, wlog, openErr, unplugErr, qres, prev,
          ncalls, nfaults,
          fe, fin, fanalog, fpc, fi,
          tpc, tname, tport, tres, PORT_ILLEGAL,
          foreground_vm, gpc, gdomid, gn, gr, gret, glog,
          loggers, lpc, lcall, lret, lsink, nsets

tree   == <<connection, port_override, edid>>
cvars  == <<pc, call, buf, ret, crashed, wlog, openErr, unplugErr, qres, prev, ncalls,
            nfaults>>
fvars  == <<fe, fin, fanalog, fpc, fi>>
tvars  == <<tpc, tname, tport, tres, PORT_ILLEGAL>>
gvars  == <<foreground_vm, gpc, gdomid, gn, gr, gret, glog>>
lvars  == <<loggers, lpc, lcall, lret, lsink, nsets>>
vars   == <<connection, port_override, edid, connectedWith,
            pc, call, buf, ret, crashed, wlog, openErr, unplugErr, qres, prev,
            ncalls, nfaults, fe, fin, fanalog, fpc, fi,
            tpc, tname, tport, tres, PORT_ILLEGAL,
            foreground_vm, gpc, gdomid, gn, gr, gret, glog,
            loggers, lpc, lcall, lret, lsink, nsets>>

Keys == RegisteredVMs \X ValidPorts

NoCall  == [op |-> "none", domid |-> 0, vgt_port |-> 0, pgt_port |-> 0, edid_size |-> 0,
            edid_in |-> <<>>]
NoQuery == [ret |-> 0, io |-> "none"]
NoPrev  == [op |-> "none", domid |-> 0, vgt_port |-> 0]
NoBuf   == <<>>
NoResult == [valid |-> FALSE, name |-> "", port |-> 0, back |-> 0]

(***************************************************************************)
(* Kernel side of the attributes: what a store that takes effect leaves to *)
(* be read back.                                                           *)
(***************************************************************************)
\* connection: "connect" / "disconnect" written, "connected" /
\* "disconnected" read back; any other token is rejected.
StoreConnection(old, text) ==
    IF ScanToken(text) = T_connect THEN FormatLine(T_connected)
    ELSE IF ScanToken(text) = T_disconnect THEN FormatLine(T_disconnected)
    ELSE old

\* port_override keeps the name written.
StoreOverride(old, text) == ScanToken(text)

(***************************************************************************)
(* igvt_port_plugged_p after its argument checks: the outcomes of fopen,   *)
(* fscanf("%s", c) and strcmp for an attribute text.  A token that with    *)
(* its NUL does not fit c[12] is written past the end of c: the call       *)
(* either carries on with the comparison or ends abnormally.               *)
(***************************************************************************)
Compare(tok) == IF tok = T_connected THEN 1 ELSE 0

ReadOutcomes(openok, text) ==
    LET tok == ScanToken(text) IN
    IF ~openok THEN { [ret |-> 0, io |-> "openfail", crashed |-> FALSE] }
    ELSE IF tok = <<>> THEN { [ret |-> 0, io |-> "eof", crashed |-> FALSE] }
    ELSE IF Len(tok) + 1 > C_SIZE
         THEN { [ret |-> Compare(tok), io |-> "overflow", crashed |-> FALSE],
                [ret |-> 0, io |-> "overflow", crashed |-> TRUE] }
    ELSE { [ret |-> Compare(tok), io |-> "ok", crashed |-> FALSE] }

\* fopen outcomes available for an attribute of (domid, port).
OpenOutcomes(domid, port) ==
    IF PathExists(domid, port) THEN BOOLEAN ELSE {FALSE}

\* An operation of the control channel goes wrong: counted, and possible
\* only while the budget lasts.
Fault(failed) ==
    /\ failed => nfaults < MaxFaults
    /\ nfaults' = IF failed THEN nfaults + 1 ELSE nfaults

Write(attr, data, ok) == [attr |-> attr, data |-> data, ok |-> ok]

\* igvt_log_type
IGVT_ERROR       == 0
IGVT_WARNING     == 1
IGVT_NUM_LOGGERS == 2

LogTypes == 0..(IGVT_NUM_LOGGERS - 1)

\* No logger installed: the static array is zero-initialised.
NULL == "NULL"

\* The functions a caller hands to the setters; NULL removes a logger.
LoggerArgs == {NULL, "f", "g"}

MaxSets == 3

\* igvt_set_foreground_vm is not in use.
FgIdle ==
    /\ foreground_vm = FormatLine(FormatD(0))
    /\ gpc = "off" /\ gdomid = 0 /\ gn = 0 /\ gr = -1 /\ gret = 0 /\ glog = <<>>

\* The loggers are not in use.
LogIdle ==
    /\ loggers = [t \in LogTypes |-> NULL]
    /\ lpc = "off"
    /\ lcall = [op |-> "none", arg |-> NULL, before |-> [t \in LogTypes |-> NULL]]
    /\ lret = NULL
    /\ lsink = [type |-> 0, to |-> "none"]
    /\ nsets = 0

\* The control tree when the library is entered: every port unplugged and
\* never written, except that PORT_B of the registered VM may have been
\* plugged by an earlier igvt_plug_display(1, PORT_B, InitEdid, 128, PORT_EDP).
InitEdid == MkEdid(128, 165, 255, 65535, 10000, 0)
InitKey  == <<1, 1>>

Init ==
    /\ \E plugged \in BOOLEAN :
        /\ connection = [k \in Keys |->
                           IF plugged /\ k = InitKey THEN FormatLine(T_connected)
                           ELSE FormatLine(T_disconnected)]
        /\ port_override = [k \in Keys |->
                           IF plugged /\ k = InitKey THEN port_strings[0] ELSE <<>>]
        /\ edid = [k \in Keys |->
                           IF plugged /\ k = InitKey
                           THEN FirstBytes(_filter_edid(InitEdid, 128, is_port_digital(1)),
                                           EdidWriteSize(128))
                           ELSE <<>>]
    /\ connectedWith = [k \in Keys |-> <<port_override[k], edid[k]>>]
    /\ pc        = [c \in Callers |-> "idle"]
    /\ call      = [c \in Callers |-> NoCall]
    /\ buf       = [c \in Callers |-> NoBuf]
    /\ ret       = [c \in Callers |-> 0]
    /\ crashed   = [c \in Callers |-> FALSE]
    /\ wlog      = [c \in Callers |-> <<>>]
    /\ openErr   = [c \in Callers |-> "none"]
    /\ unplugErr = [c \in Callers |-> FALSE]
    /\ qres      = [c \in Callers |-> NoQuery]
    /\ prev      = [c \in Callers |-> NoPrev]
    /\ ncalls    = 0
    /\ nfaults   = 0
    /\ fe = NoBuf /\ fin = NoBuf /\ fanalog = 0 /\ fpc = "off" /\ fi = 0
    /\ tpc = "off" /\ tname = "" /\ tport = 0 /\ tres = NoResult
    /\ PORT_ILLEGAL = GVT_MAX_PORTS
    /\ FgIdle
    /\ LogIdle

\* The call of caller c ends with return value r.
Finish(c, r) ==
    /\ pc' = [pc EXCEPT ![c] = "done"]
    /\ ret' = [ret EXCEPT ![c] = r]

\* A slip that forgets the return after a failed fopen of plug: the error
\* is noted and the call carries on with the next step.
OpenFailed_goeson(c, attr) ==
    /\ openErr' = [openErr EXCEPT ![c] = attr]
    /\ pc' = [pc EXCEPT ![c] = IF attr = "port_override" THEN "p_filter"
                               ELSE IF attr = "edid" THEN "p_connect" ELSE "done"]
    /\ ret' = [ret EXCEPT ![c] = IF attr = "connection" THEN -ENODEV ELSE 0]

\* if (!fd) { igvt_printf(...); return -ENODEV; }
OpenFailed(c, attr) ==
    /\ openErr' = [openErr EXCEPT ![c] = attr]
    /\ Finish(c, -ENODEV)

\* The call goes on to its next position.
Goto(c, where) ==
    /\ pc' = [pc EXCEPT ![c] = where]
    /\ ret' = [ret EXCEPT ![c] = 0]
    /\ crashed' = [crashed EXCEPT ![c] = FALSE]

\* igvt_printf(IGVT_ERROR, "%s::Invalid vgt_port %s\n", __func__, vgt_port):
\* the port ordinal is handed to a %s conversion, which reads it as a
\* pointer to a string.  The call either survives the formatting and
\* returns r, or ends abnormally inside it.
RejectPort(c, r) ==
    \E cr \in BOOLEAN :
        /\ crashed' = [crashed EXCEPT ![c] = cr]
        /\ Finish(c, IF cr THEN 0 ELSE r)

\* igvt_printf(IGVT_ERROR, "%s::Invalid domain %d\n", __func__, domid); return r
RejectDomain(c, r) ==
    /\ crashed' = [crashed EXCEPT ![c] = FALSE]
    /\ Finish(c, r)

\* Start of a call: everything call-local is fresh.
Begin(c, rec, e) ==
    /\ pc[c] = "idle"
    /\ ncalls < MaxCalls
    /\ ncalls' = ncalls + 1
    /\ call' = [call EXCEPT ![c] = rec]
    /\ buf' = [buf EXCEPT ![c] = e]
    /\ wlog' = [wlog EXCEPT ![c] = <<>>]
    /\ openErr' = [openErr EXCEPT ![c] = "none"]
    /\ unplugErr' = [unplugErr EXCEPT ![c] = FALSE]
    /\ qres' = [qres EXCEPT ![c] = NoQuery]
    /\ UNCHANGED <<prev, tree, nfaults, fvars, tvars, gvars, lvars, connectedWith>>

(***************************************************************************)
(* igvt_plug_display                                                       *)
(***************************************************************************)
\* Entry and the three argument checks.
plug_entry(c, d, v, p, e) ==
    /\ Begin(c, [op |-> "plug", domid |-> d, vgt_port |-> v, pgt_port |-> p,
                 edid_size |-> e.size, edid_in |-> e.data], e.data)
    /\ IF ~igvt_enabled_p(d) THEN RejectDomain(c, -EINVAL)
       ELSE IF ~igvt_is_valid_port_p(v) THEN RejectPort(c, -EINVAL)
       ELSE IF ~igvt_is_valid_port_p(p) THEN RejectPort(c, -EINVAL)
       ELSE Goto(c, "p_query")

plug_call(c) ==
    \E d \in Domains, v \in VirtPortArgs, p \in PhysPortArgs, e \in PlugEdids :
        plug_entry(c, d, v, p, e)

\* A slip that loses the implicit unplug: whatever the plugged-check says,
\* the call goes on to write port_override.
plug_query_nounplug(c) ==
    /\ pc[c] = "p_query"
    /\ \E openok \in OpenOutcomes(call[c].domid, call[c].vgt_port) :
       \E o \in ReadOutcomes(openok, connection[<<call[c].domid, call[c].vgt_port>>]) :
          /\ Fault(~openok)
          /\ qres' = [qres EXCEPT ![c] = [ret |-> o.ret, io |-> o.io]]
          /\ crashed' = [crashed EXCEPT ![c] = o.crashed]
          /\ pc' = [pc EXCEPT ![c] = IF o.crashed THEN "done" ELSE "p_override"]
    /\ UNCHANGED <<tree, call, buf, ret, wlog, openErr, unplugErr, prev, ncalls, fvars, tvars, gvars, lvars, connectedWith>>

\* if (igvt_port_plugged_p(domid, vgt_port))
plug_query(c) ==
    /\ pc[c] = "p_query"
    /\ \E openok \in OpenOutcomes(call[c].domid, call[c].vgt_port) :
       \E o \in ReadOutcomes(openok, connection[<<call[c].domid, call[c].vgt_port>>]) :
          /\ Fault(~openok)
          /\ qres' = [qres EXCEPT ![c] = [ret |-> o.ret, io |-> o.io]]
          /\ crashed' = [crashed EXCEPT ![c] = o.crashed]
          /\ pc' = [pc EXCEPT ![c] = IF o.crashed THEN "done"
                                     ELSE IF o.ret # 0 THEN "p_unplug"
                                     ELSE "p_override"]
    /\ UNCHANGED <<tree, call, buf, ret, wlog, openErr, unplugErr, prev, ncalls, fvars, tvars, gvars, lvars, connectedWith>>

\* igvt_unplug_display(domid, vgt_port), its result dropped.
plug_unplug(c) ==
    LET k == <<call[c].domid, call[c].vgt_port>> IN
    /\ pc[c] = "p_unplug"
    /\ \E openok \in OpenOutcomes(call[c].domid, call[c].vgt_port), eff \in BOOLEAN :
          /\ Fault(~openok \/ ~eff)
          /\ IF ~openok
             THEN /\ eff
                  /\ unplugErr' = [unplugErr EXCEPT ![c] = TRUE]
                  /\ UNCHANGED <<wlog, connection>>
             ELSE /\ wlog' = [wlog EXCEPT ![c] =
                                 Append(@, Write("connection", FormatLine(T_disconnect), eff))]
                  /\ connection' = IF eff
                                   THEN [connection EXCEPT ![k] =
                                           StoreConnection(@, FormatLine(T_disconnect))]
                                   ELSE connection
                  /\ UNCHANGED unplugErr
    /\ pc' = [pc EXCEPT ![c] = "p_override"]
    /\ UNCHANGED <<port_override, edid, call, buf, ret, crashed, openErr, qres, prev,
                   ncalls, fvars, tvars, gvars, lvars, connectedWith>>

\* fopen(port_override, "w"); fprintf(fd, "%s\n", port_strings[pgt_port]); fclose
plug_override(c) ==
    LET k == <<call[c].domid, call[c].vgt_port>>
        text == FormatLine(port_strings[call[c].pgt_port]) IN
    /\ pc[c] = "p_override"
    /\ \E openok \in OpenOutcomes(call[c].domid, call[c].vgt_port), eff \in BOOLEAN :
          /\ Fault(~openok \/ ~eff)
          /\ IF ~openok
             THEN /\ eff
                  /\ OpenFailed(c, "port_override")
                  /\ UNCHANGED <<wlog, port_override>>
             ELSE /\ wlog' = [wlog EXCEPT ![c] = Append(@, Write("port_override", text, eff))]
                  /\ port_override' = IF eff
                                      THEN [port_override EXCEPT ![k] = StoreOverride(@, text)]
                                      ELSE port_override
                  /\ pc' = [pc EXCEPT ![c] = "p_filter"]
                  /\ UNCHANGED <<openErr, ret>>
    /\ UNCHANGED <<connection, edid, call, buf, crashed, unplugErr, qres, prev,
                   ncalls, fvars, tvars, gvars, lvars, connectedWith>>

\* A slip that loses the edid step: after the patch the call goes straight
\* on to write "connect".
plug_filter_skipedid(c) ==
    /\ pc[c] = "p_filter"
    /\ buf' = [buf EXCEPT ![c] =
                 _filter_edid(@, call[c].edid_size, is_port_digital(call[c].vgt_port))]
    /\ pc' = [pc EXCEPT ![c] = "p_connect"]
    /\ UNCHANGED <<tree, call, ret, crashed, wlog, openErr, unplugErr, qres, prev,
                   ncalls, nfaults, fvars, tvars, gvars, lvars, connectedWith>>

\* _filter_edid(edid, edid_size, is_port_digital(vgt_port))
plug_filter(c) ==
    /\ pc[c] = "p_filter"
    /\ buf' = [buf EXCEPT ![c] =
                 _filter_edid(@, call[c].edid_size, is_port_digital(call[c].vgt_port))]
    /\ pc' = [pc EXCEPT ![c] = "p_edid"]
    /\ UNCHANGED <<tree, call, ret, crashed, wlog, openErr, unplugErr, qres, prev,
                   ncalls, nfaults, fvars, tvars, gvars, lvars, connectedWith>>

\* fopen(edid, "w"); truncate to 128; fwrite, its result only printed; fclose
plug_edid(c) ==
    LET k == <<call[c].domid, call[c].vgt_port>>
        data == FirstBytes(buf[c], EdidWriteSize(call[c].edid_size)) IN
    /\ pc[c] = "p_edid"
    /\ \E openok \in OpenOutcomes(call[c].domid, call[c].vgt_port), eff \in BOOLEAN :
          /\ Fault(~openok \/ ~eff)
          /\ IF ~openok
             THEN /\ eff
                  /\ OpenFailed(c, "edid")
                  /\ UNCHANGED <<wlog, edid>>
             ELSE /\ wlog' = [wlog EXCEPT ![c] = Append(@, Write("edid", data, eff))]
                  /\ edid' = IF eff THEN [edid EXCEPT ![k] = data] ELSE edid
                  /\ pc' = [pc EXCEPT ![c] = "p_connect"]
                  /\ UNCHANGED <<openErr, ret>>
    /\ UNCHANGED <<connection, port_override, call, buf, crashed, unplugErr, qres, prev,
                   ncalls, fvars, tvars, gvars, lvars, connectedWith>>

\* fopen(connection, "w"); fprintf(fd, "%s\n", "connect"); fclose; return 0
plug_connect(c) ==
    LET k == <<call[c].domid, call[c].vgt_port>>
        text == FormatLine(T_connect) IN
    /\ pc[c] = "p_connect"
    /\ \E openok \in OpenOutcomes(call[c].domid, call[c].vgt_port), eff \in BOOLEAN :
          /\ Fault(~openok \/ ~eff)
          /\ IF ~openok
             THEN /\ eff
                  /\ OpenFailed(c, "connection")
                  /\ UNCHANGED <<wlog, connection, connectedWith>>
             ELSE /\ wlog' = [wlog EXCEPT ![c] = Append(@, Write("connection", text, eff))]
                  /\ connection' = IF eff
                                   THEN [connection EXCEPT ![k] = StoreConnection(@, text)]
                                   ELSE connection
                  /\ connectedWith' = IF eff
                                      THEN [connectedWith EXCEPT ![k] =
                                              <<port_override[k], edid[k]>>]
                                      ELSE connectedWith
                  /\ Finish(c, 0)
                  /\ UNCHANGED openErr
    /\ UNCHANGED <<port_override, edid, call, buf, crashed, unplugErr, qres, prev,
                   ncalls, fvars, tvars, gvars, lvars>>

(***************************************************************************)
(* igvt_unplug_display                                                     *)
(***************************************************************************)
unplug_call(c) ==
    \E d \in Domains, v \in VirtPortArgs :
        /\ Begin(c, [op |-> "unplug", domid |-> d, vgt_port |-> v, pgt_port |-> 0,
                     edid_size |-> 0, edid_in |-> <<>>], NoBuf)
        /\ IF ~igvt_enabled_p(d) THEN RejectDomain(c, -EINVAL)
           ELSE IF ~igvt_is_valid_port_p(v) THEN RejectPort(c, -EINVAL)
           ELSE Goto(c, "u_write")

\* fopen(connection, "w"); fprintf(f, "%s\n", "disconnect"); fclose; return 0
unplug_write(c) ==
    LET k == <<call[c].domid, call[c].vgt_port>>
        text == FormatLine(T_disconnect) IN
    /\ pc[c] = "u_write"
    /\ \E openok \in OpenOutcomes(call[c].domid, call[c].vgt_port), eff \in BOOLEAN :
          /\ Fault(~openok \/ ~eff)
          /\ IF ~openok
             THEN /\ eff
                  /\ OpenFailed(c, "connection")
                  /\ UNCHANGED <<wlog, connection>>
             ELSE /\ wlog' = [wlog EXCEPT ![c] = Append(@, Write("connection", text, eff))]
                  /\ connection' = IF eff
                                   THEN [connection EXCEPT ![k] = StoreConnection(@, text)]
                                   ELSE connection
                  /\ Finish(c, 0)
                  /\ UNCHANGED openErr
    /\ UNCHANGED <<port_override, edid, call, buf, crashed, unplugErr, qres, prev,
                   ncalls, fvars, tvars, gvars, lvars, connectedWith>>

(***************************************************************************)
(* igvt_port_plugged_p                                                     *)
(***************************************************************************)
plugged_call(c) ==
    \E d \in Domains, v \in VirtPortArgs :
        /\ Begin(c, [op |-> "plugged_p", domid |-> d, vgt_port |-> v, pgt_port |-> 0,
                     edid_size |-> 0, edid_in |-> <<>>], NoBuf)
        /\ IF ~igvt_enabled_p(d) THEN RejectDomain(c, 0)
           ELSE IF ~igvt_is_valid_port_p(v) THEN RejectPort(c, 0)
           ELSE IF d = 0 \/ d \notin RegisteredVMs THEN RejectDomain(c, 0)
           ELSE Goto(c, "q_read")

\* fopen(connection, "r"); fscanf(f, "%s", c); strcmp("connected", c); fclose
plugged_read(c) ==
    /\ pc[c] = "q_read"
    /\ \E openok \in OpenOutcomes(call[c].domid, call[c].vgt_port) :
       \E o \in ReadOutcomes(openok, connection[<<call[c].domid, call[c].vgt_port>>]) :
          /\ Fault(~openok)
          /\ qres' = [qres EXCEPT ![c] = [ret |-> o.ret, io |-> o.io]]
          /\ crashed' = [crashed EXCEPT ![c] = o.crashed]
          /\ Finish(c, o.ret)
    /\ UNCHANGED <<tree, call, buf, wlog, openErr, unplugErr, prev, ncalls, fvars, tvars, gvars, lvars, connectedWith>>

\* The caller takes the result; the call becomes its previous call.
Return(c) ==
    /\ pc[c] = "done"
    /\ pc' = [pc EXCEPT ![c] = "idle"]
    /\ prev' = [prev EXCEPT ![c] =
                  IF call[c].op \in {"plug", "unplug"} /\ ret[c] = 0 /\ ~crashed[c]
                  THEN [op |-> call[c].op, domid |-> call[c].domid,
                        vgt_port |-> call[c].vgt_port]
                  ELSE NoPrev]
    /\ call' = [call EXCEPT ![c] = NoCall]
    /\ buf' = [buf EXCEPT ![c] = NoBuf]
    /\ ret' = [ret EXCEPT ![c] = 0]
    /\ crashed' = [crashed EXCEPT ![c] = FALSE]
    /\ wlog' = [wlog EXCEPT ![c] = <<>>]
    /\ openErr' = [openErr EXCEPT ![c] = "none"]
    /\ unplugErr' = [unplugErr EXCEPT ![c] = FALSE]
    /\ qres' = [qres EXCEPT ![c] = NoQuery]
    /\ UNCHANGED <<tree, ncalls, nfaults, fvars, tvars, gvars, lvars, connectedWith>>

Step(c) ==
    \/ plug_call(c)
    \/ plug_query(c)
    \/ plug_unplug(c)
    \/ plug_override(c)
    \/ plug_filter(c)
    \/ plug_edid(c)
    \/ plug_connect(c)
    \/ unplug_call(c)
    \/ unplug_write(c)
    \/ plugged_call(c)
    \/ plugged_read(c)
    \/ Return(c)

\* One caller.
Next == Step("c1")

Spec == Init /\ [][Next]_vars

(***************************************************************************)
(* Two independent callers of igvt_plug_display on the same port of the    *)
(* same domain, over a control channel on which no fopen and no write      *)
(* fails: what goes wrong here is due to the interleaving alone.           *)
(***************************************************************************)
RaceDomain == 1
RacePort   == 1          \* PORT_B

\* What each caller asks for: a different physical port and EDID each.
RaceArgs ==
    [ c \in Callers |->
        IF c = "c1"
        THEN [pgt_port |-> 2, edid |-> [data |-> MkEdid(128, 165, 255, 65535, 10000, 0),
                                        size |-> 128]]
        ELSE [pgt_port |-> 3, edid |-> [data |-> MkEdid(256, 37, 250, 16001, 16000, 0),
                                        size |-> 256]] ]

race_call(c) ==
    plug_entry(c, RaceDomain, RacePort, RaceArgs[c].pgt_port, RaceArgs[c].edid)

\* No operation of the control channel fails in this step.
NoFault == nfaults' = nfaults

RaceStep(c) ==
    \/ race_call(c)
    \/ plug_query(c) /\ NoFault
    \/ plug_unplug(c) /\ NoFault
    \/ plug_override(c) /\ NoFault
    \/ plug_filter(c)
    \/ plug_edid(c) /\ NoFault
    \/ plug_connect(c) /\ NoFault
    \/ Return(c)

NextRace == \E c \in Callers : RaceStep(c)

SpecRace == Init /\ [][NextRace]_vars

(***************************************************************************)
(* _filter_edid, one write_edid_byte per step.                             *)
(*   fpc: "flags" the digital/analog test and the store to byte 20,        *)
(*        "flag24A" / "flag24D" the store to byte 24 of the branch taken,  *)
(*        "dpms", "clock" (descriptor fi, low byte), "clock_hi", "done".   *)
(***************************************************************************)
EdidFamily ==
    { MkEdid(len, b20, b24, c0, c3, skew) :
        len \in {128, 256}, b20 \in {0, 37, 128, 165}, b24 \in {0, 24, 226, 255},
        c0 \in {10000, 16000, 16001, 65535}, c3 \in {5000, 65535}, skew \in {0, 1} }

EdidInit ==
    /\ connection    = [k \in Keys |-> FormatLine(T_disconnected)]
    /\ port_override = [k \in Keys |-> <<>>]
    /\ edid          = [k \in Keys |-> <<>>]
    /\ connectedWith = [k \in Keys |-> <<port_override[k], edid[k]>>]
    /\ pc        = [c \in Callers |-> "idle"]
    /\ call      = [c \in Callers |-> NoCall]
    /\ buf       = [c \in Callers |-> NoBuf]
    /\ ret       = [c \in Callers |-> 0]
    /\ crashed   = [c \in Callers |-> FALSE]
    /\ wlog      = [c \in Callers |-> <<>>]
    /\ openErr   = [c \in Callers |-> "none"]
    /\ unplugErr = [c \in Callers |-> FALSE]
    /\ qres      = [c \in Callers |-> NoQuery]
    /\ prev      = [c \in Callers |-> NoPrev]
    /\ ncalls    = 0
    /\ nfaults   = 0
    /\ fin \in EdidFamily
    /\ fanalog \in {0, 1}
    /\ fe = fin
    /\ fpc = "flags"
    /\ fi = 0
    /\ tpc = "off" /\ tname = "" /\ tport = 0 /\ tres = NoResult
    /\ PORT_ILLEGAL = GVT_MAX_PORTS
    /\ FgIdle
    /\ LogIdle

filter_flags ==
    /\ fpc = "flags"
    /\ LET b == FlagBranch(fe, fanalog) IN
       IF b = "N"
       THEN /\ fpc' = "dpms"
            /\ UNCHANGED fe
       ELSE /\ fe' = write_edid_byte(fe, INPUT_BYTE, Flag20Value(b))
            /\ fpc' = IF b = "A" THEN "flag24A" ELSE "flag24D"
    /\ UNCHANGED <<fin, fanalog, fi, tree, connectedWith, cvars, tvars, gvars, lvars>>

filter_flag24 ==
    /\ fpc \in {"flag24A", "flag24D"}
    /\ fe' = write_edid_byte(fe, FEATURE_BYTE,
                             Flag24Value(fe, IF fpc = "flag24A" THEN "A" ELSE "D"))
    /\ fpc' = "dpms"
    /\ UNCHANGED <<fin, fanalog, fi, tree, connectedWith, cvars, tvars, gvars, lvars>>

filter_dpms ==
    /\ fpc = "dpms"
    /\ fe' = write_edid_byte(fe, FEATURE_BYTE, DpmsValue(fe))
    /\ fpc' = "clock"
    /\ fi' = 0
    /\ UNCHANGED <<fin, fanalog, tree, connectedWith, cvars, tvars, gvars, lvars>>

filter_clock ==
    /\ fpc = "clock"
    /\ fi < NUM_DESCRIPTORS
    /\ IF PixelClock(fe, fi) > MAX_PIXEL_CLOCK
       THEN /\ fe' = write_edid_byte(fe, DescriptorOffset(fi), ClockLow)
            /\ fpc' = "clock_hi"
            /\ UNCHANGED fi
       ELSE /\ fi' = fi + 1
            /\ UNCHANGED <<fe, fpc>>
    /\ UNCHANGED <<fin, fanalog, tree, connectedWith, cvars, tvars, gvars, lvars>>

filter_clock_hi ==
    /\ fpc = "clock_hi"
    /\ fe' = write_edid_byte(fe, DescriptorOffset(fi) + 1, ClockHigh)
    /\ fi' = fi + 1
    /\ fpc' = "clock"
    /\ UNCHANGED <<fin, fanalog, tree, connectedWith, cvars, tvars, gvars, lvars>>

filter_return ==
    /\ fpc = "clock"
    /\ fi >= NUM_DESCRIPTORS
    /\ fpc' = "done"
    /\ UNCHANGED <<fe, fin, fanalog, fi, tree, connectedWith, cvars, tvars, gvars, lvars>>

NextEdid ==
    \/ filter_flags
    \/ filter_flag24
    \/ filter_dpms
    \/ filter_clock
    \/ filter_clock_hi
    \/ filter_return

SpecEdid == EdidInit /\ [][NextEdid]_vars

\* The stepwise run ends in the buffer _filter_edid computes.
StepwiseAgrees == fpc = "done" => fe = _filter_edid(fin, EDID_BLOCK, fanalog)

(***************************************************************************)
(* The port tables: igvt_translate_i915_port, igvt_translate_pgt_port and  *)
(* igvt_is_valid_port_p applied to a connector name and a port ordinal.    *)
(***************************************************************************)
\* The values PORT_ILLEGAL may have: igvt.h documents GVT_MAX_PORTS as the
\* error result; the other candidate is a negative sentinel.
IllegalSentinels == {-1, GVT_MAX_PORTS}

\* The chain of strcmp tests, in the order of the source.
igvt_translate_i915_port(i915_port_name) ==
    IF i915_port_name = "card0-eDP-1" THEN 0
    ELSE IF i915_port_name = "card0-DP-1" THEN 1
    ELSE IF i915_port_name = "card0-HDMI-A-1" THEN 1
    ELSE IF i915_port_name = "card0-DP-2" THEN 2
    ELSE IF i915_port_name = "card0-HDMI-A-2" THEN 2
    ELSE IF i915_port_name = "card0-DP-3" THEN 3
    ELSE IF i915_port_name = "card0-HDMI-A-3" THEN 3
    ELSE IF i915_port_name = "card0-VGA-1" THEN 4
    ELSE PORT_ILLEGAL

\* The switch over the port, "INVALID" after it.
igvt_translate_pgt_port(pgt_port_num) ==
    IF pgt_port_num = 0 THEN "card0-eDP-1"
    ELSE IF pgt_port_num = 1 THEN "card-HDMI-A-1"
    ELSE IF pgt_port_num = 2 THEN "card0-HDMI-A-2"
    ELSE IF pgt_port_num = 3 THEN "card0-HDMI-A-3"
    ELSE IF pgt_port_num = 4 THEN "card0-VGA-1"
    ELSE "INVALID"

\* Connector names handed to igvt_translate_i915_port: the eight names of
\* the i915 driver and four it does not know.
ConnectorNames ==
    { "card0-eDP-1", "card0-DP-1", "card0-HDMI-A-1", "card0-DP-2", "card0-HDMI-A-2",
      "card0-DP-3", "card0-HDMI-A-3", "card0-VGA-1",
      "card-HDMI-A-1", "card0-DP-4", "INVALID", "" }

\* Port ordinals handed to the tables: the five ports, GVT_MAX_PORTS and
\* values on both sides of the enumeration.
PortOrdinals == -2..7

PortInit ==
    /\ connection    = [k \in Keys |-> FormatLine(T_disconnected)]
    /\ port_override = [k \in Keys |-> <<>>]
    /\ edid          = [k \in Keys |-> <<>>]
    /\ connectedWith = [k \in Keys |-> <<port_override[k], edid[k]>>]
    /\ pc        = [c \in Callers |-> "idle"]
    /\ call      = [c \in Callers |-> NoCall]
    /\ buf       = [c \in Callers |-> NoBuf]
    /\ ret       = [c \in Callers |-> 0]
    /\ crashed   = [c \in Callers |-> FALSE]
    /\ wlog      = [c \in Callers |-> <<>>]
    /\ openErr   = [c \in Callers |-> "none"]
    /\ unplugErr = [c \in Callers |-> FALSE]
    /\ qres      = [c \in Callers |-> NoQuery]
    /\ prev      = [c \in Callers |-> NoPrev]
    /\ ncalls    = 0
    /\ nfaults   = 0
    /\ fe = NoBuf /\ fin = NoBuf /\ fanalog = 0 /\ fpc = "off" /\ fi = 0
    /\ tpc = "valid"
    /\ tname \in ConnectorNames
    /\ tport \in PortOrdinals
    /\ tres = NoResult
    /\ PORT_ILLEGAL \in IllegalSentinels
    /\ FgIdle
    /\ LogIdle

\* igvt_is_valid_port_p(tport)
port_valid ==
    /\ tpc = "valid"
    /\ tres' = [tres EXCEPT !.valid = igvt_is_valid_port_p(tport)]
    /\ tpc' = "pgt"
    /\ UNCHANGED <<tname, tport, PORT_ILLEGAL, tree, connectedWith, cvars, fvars, gvars, lvars>>

\* igvt_translate_pgt_port(tport)
port_name ==
    /\ tpc = "pgt"
    /\ tres' = [tres EXCEPT !.name = igvt_translate_pgt_port(tport)]
    /\ tpc' = "i915"
    /\ UNCHANGED <<tname, tport, PORT_ILLEGAL, tree, connectedWith, cvars, fvars, gvars, lvars>>

\* igvt_translate_i915_port(tname)
name_port ==
    /\ tpc = "i915"
    /\ tres' = [tres EXCEPT !.port = igvt_translate_i915_port(tname)]
    /\ tpc' = "back"
    /\ UNCHANGED <<tname, tport, PORT_ILLEGAL, tree, connectedWith, cvars, fvars, gvars, lvars>>

\* igvt_translate_i915_port(igvt_translate_pgt_port(tport))
name_back ==
    /\ tpc = "back"
    /\ tres' = [tres EXCEPT !.back = igvt_translate_i915_port(tres.name)]
    /\ tpc' = "done"
    /\ UNCHANGED <<tname, tport, PORT_ILLEGAL, tree, connectedWith, cvars, fvars, gvars, lvars>>

NextPorts ==
    \/ port_valid
    \/ port_name
    \/ name_port
    \/ name_back

SpecPorts == PortInit /\ [][NextPorts]_vars

(***************************************************************************)
(* igvt_set_foreground_vm against the control/foreground_vm attribute,     *)
(* one stdio operation per step; opens and the write may fail.             *)
(***************************************************************************)
\* What the attribute holds when the library is entered: a domain id as
\* the kernel prints it, or nothing readable.
FgContents == { FormatLine(FormatD(0)), FormatLine(FormatD(1)), FormatLine(FormatD(10)), <<>> }

\* Kernel side: a store that takes effect leaves the number written to be
\* read back; a text that is no number is rejected.
StoreForeground(old, text) ==
    IF ScanD(text).n = 1 THEN FormatLine(FormatD(ScanD(text).v)) ELSE old

\* Entries of glog.
FgRead(n, v)     == [op |-> "read", n |-> n, v |-> v, ok |-> TRUE]
FgWrite(text, ok) == [op |-> "write", n |-> 0, v |-> text, ok |-> ok]

\* if (n == 1 && r == domid): r is compared as unsigned, which for r < 0
\* equals only a domid of 2^31 or more (none in Domains).
NoChangeRequired(n, r, domid) == n = 1 /\ r >= 0 /\ r = domid

\* A slip in the connective of the verification: && for ||.
RereadResult_and(n, r, domid) ==
    IF n # 1 /\ ~(r >= 0 /\ r = domid) THEN -EAGAIN ELSE 0

\* if (n != 1 || r != domid) retval = -EAGAIN; retval is 0 otherwise.
RereadResult(n, r, domid) ==
    IF n # 1 \/ ~(r >= 0 /\ r = domid) THEN -EAGAIN ELSE 0

\* Everything igvt_set_foreground_vm leaves alone.
fgrest == <<tree, connectedWith, pc, call, buf, ret, crashed, wlog, openErr, unplugErr,
            qres, prev, fvars, tvars, lvars>>

FgInit ==
    /\ connection    = [k \in Keys |-> FormatLine(T_disconnected)]
    /\ port_override = [k \in Keys |-> <<>>]
    /\ edid          = [k \in Keys |-> <<>>]
    /\ connectedWith = [k \in Keys |-> <<port_override[k], edid[k]>>]
    /\ pc        = [c \in Callers |-> "idle"]
    /\ call      = [c \in Callers |-> NoCall]
    /\ buf       = [c \in Callers |-> NoBuf]
    /\ ret       = [c \in Callers |-> 0]
    /\ crashed   = [c \in Callers |-> FALSE]
    /\ wlog      = [c \in Callers |-> <<>>]
    /\ openErr   = [c \in Callers |-> "none"]
    /\ unplugErr = [c \in Callers |-> FALSE]
    /\ qres      = [c \in Callers |-> NoQuery]
    /\ prev      = [c \in Callers |-> NoPrev]
    /\ ncalls    = 0
    /\ nfaults   = 0
    /\ fe = NoBuf /\ fin = NoBuf /\ fanalog = 0 /\ fpc = "off" /\ fi = 0
    /\ tpc = "off" /\ tname = "" /\ tport = 0 /\ tres = NoResult
    /\ PORT_ILLEGAL = GVT_MAX_PORTS
    /\ LogIdle
    /\ foreground_vm \in FgContents
    /\ gpc = "idle" /\ gdomid = 0 /\ gn = 0 /\ gr = -1 /\ gret = 0 /\ glog = <<>>

\* Entry: int n, r = -1; for a non-zero domid stat() of the vm directory.
fg_call ==
    /\ gpc = "idle"
    /\ ncalls < MaxCalls
    /\ ncalls' = ncalls + 1
    /\ \E d \in Domains :
          /\ gdomid' = d
          /\ IF d # 0 /\ d \notin RegisteredVMs
             THEN gpc' = "done" /\ gret' = -EINVAL
             ELSE gpc' = "g_read" /\ gret' = 0
    /\ gn' = 0
    /\ gr' = -1
    /\ glog' = <<>>
    /\ UNCHANGED <<foreground_vm, nfaults, fgrest>>

\* fopen(.., "r"); n = fscanf(fd, "%d", &r); fclose; return 0 when no change
\* is required.
fg_read ==
    /\ gpc = "g_read"
    /\ \E openok \in BOOLEAN :
          /\ Fault(~openok)
          /\ IF ~openok
             THEN /\ gpc' = "done"
                  /\ gret' = -ENODEV
                  /\ UNCHANGED <<gn, gr, glog>>
             ELSE LET s == ScanD(foreground_vm)
                      r == IF s.n = 1 THEN s.v ELSE gr
                  IN  /\ gn' = s.n
                      /\ gr' = r
                      /\ glog' = Append(glog, FgRead(s.n, r))
                      /\ IF NoChangeRequired(s.n, r, gdomid)
                         THEN gpc' = "done" /\ gret' = 0
                         ELSE gpc' = "g_write" /\ UNCHANGED gret
    /\ UNCHANGED <<foreground_vm, gdomid, ncalls, fgrest>>

\* fopen(.., "w"); fprintf(fd, "%d", domid); fclose: both results only logged.
fg_write ==
    /\ gpc = "g_write"
    /\ \E openok \in BOOLEAN, eff \in BOOLEAN :
          /\ Fault(~openok \/ ~eff)
          /\ IF ~openok
             THEN /\ eff
                  /\ gpc' = "done"
                  /\ gret' = -ENODEV
                  /\ UNCHANGED <<glog, foreground_vm>>
             ELSE /\ glog' = Append(glog, FgWrite(FormatD(gdomid), eff))
                  /\ foreground_vm' = IF eff
                                      THEN StoreForeground(foreground_vm, FormatD(gdomid))
                                      ELSE foreground_vm
                  /\ gpc' = "g_reread"
                  /\ UNCHANGED gret
    /\ UNCHANGED <<gdomid, gn, gr, ncalls, fgrest>>

\* fopen(.., "r"); n = fscanf(fd, "%d", &r); the verification; fclose; return
fg_reread ==
    /\ gpc = "g_reread"
    /\ \E openok \in BOOLEAN :
          /\ Fault(~openok)
          /\ IF ~openok
             THEN /\ gret' = -ENODEV
                  /\ UNCHANGED <<gn, gr, glog>>
             ELSE LET s == ScanD(foreground_vm)
                      r == IF s.n = 1 THEN s.v ELSE gr
                  IN  /\ gn' = s.n
                      /\ gr' = r
                      /\ glog' = Append(glog, FgRead(s.n, r))
                      /\ gret' = RereadResult(s.n, r, gdomid)
    /\ gpc' = "done"
    /\ UNCHANGED <<foreground_vm, gdomid, ncalls, fgrest>>

\* The caller takes the result.
fg_return ==
    /\ gpc = "done"
    /\ gpc' = "idle"
    /\ gret' = 0
    /\ gn' = 0
    /\ gr' = -1
    /\ glog' = <<>>
    /\ gdomid' = 0
    /\ UNCHANGED <<foreground_vm, ncalls, nfaults, fgrest>>

NextFg ==
    \/ fg_call
    \/ fg_read
    \/ fg_write
    \/ fg_reread
    \/ fg_return

SpecFg == FgInit /\ [][NextFg]_vars

(***************************************************************************)
(* The logger setters and igvt_printf.                                     *)
(***************************************************************************)
\* Everything the loggers leave alone.
logrest == <<tree, connectedWith, cvars, fvars, tvars, gvars>>

LogInit ==
    /\ connection    = [k \in Keys |-> FormatLine(T_disconnected)]
    /\ port_override = [k \in Keys |-> <<>>]
    /\ edid          = [k \in Keys |-> <<>>]
    /\ connectedWith = [k \in Keys |-> <<port_override[k], edid[k]>>]
    /\ pc        = [c \in Callers |-> "idle"]
    /\ call      = [c \in Callers |-> NoCall]
    /\ buf       = [c \in Callers |-> NoBuf]
    /\ ret       = [c \in Callers |-> 0]
    /\ crashed   = [c \in Callers |-> FALSE]
    /\ wlog      = [c \in Callers |-> <<>>]
    /\ openErr   = [c \in Callers |-> "none"]
    /\ unplugErr = [c \in Callers |-> FALSE]
    /\ qres      = [c \in Callers |-> NoQuery]
    /\ prev      = [c \in Callers |-> NoPrev]
    /\ ncalls    = 0
    /\ nfaults   = 0
    /\ fe = NoBuf /\ fin = NoBuf /\ fanalog = 0 /\ fpc = "off" /\ fi = 0
    /\ tpc = "off" /\ tname = "" /\ tport = 0 /\ tres = NoResult
    /\ PORT_ILLEGAL = GVT_MAX_PORTS
    /\ FgIdle
    /\ loggers = [t \in LogTypes |-> NULL]
    /\ lpc = "idle"
    /\ lcall = [op |-> "none", arg |-> NULL, before |-> [t \in LogTypes |-> NULL]]
    /\ lret = NULL
    /\ lsink = [type |-> 0, to |-> "none"]
    /\ nsets = 0

\* Start of a setter call: the loggers as they are go into the record.
SetterCall(op, new_logger) ==
    /\ lpc = "idle"
    /\ nsets < MaxSets
    /\ nsets' = nsets + 1
    /\ lcall' = [op |-> op, arg |-> new_logger, before |-> loggers]
    /\ lpc' = "done"

\* old_logger = loggers[IGVT_WARNING]; loggers[IGVT_WARNING] = new_logger
igvt_set_warning_logger ==
    \E new_logger \in LoggerArgs :
        /\ SetterCall("set_warning", new_logger)
        /\ lret' = loggers[IGVT_WARNING]
        /\ loggers' = [loggers EXCEPT ![IGVT_WARNING] = new_logger]
        /\ UNCHANGED <<lsink, logrest>>

\* old_logger = loggers[IGVT_ERROR]; loggers[IGVT_WARNING] = new_logger
igvt_set_error_logger ==
    \E new_logger \in LoggerArgs :
        /\ SetterCall("set_error", new_logger)
        /\ lret' = loggers[IGVT_ERROR]
        /\ loggers' = [loggers EXCEPT ![IGVT_WARNING] = new_logger]
        /\ UNCHANGED <<lsink, logrest>>

\* igvt_printf(log_type, ...): to loggers[log_type] when set, else to stdout.
igvt_printf ==
    /\ lpc = "idle"
    /\ \E log_type \in LogTypes :
          lsink' = [type |-> log_type,
                    to |-> IF loggers[log_type] # NULL THEN loggers[log_type] ELSE "stdout"]
    /\ UNCHANGED <<loggers, lpc, lcall, lret, nsets, logrest>>

\* The caller takes the pointer returned.
setter_return ==
    /\ lpc = "done"
    /\ lpc' = "idle"
    /\ UNCHANGED <<loggers, lcall, lret, lsink, nsets, logrest>>

NextLog ==
    \/ igvt_set_warning_logger
    \/ igvt_set_error_logger
    \/ igvt_printf
    \/ setter_return

SpecLog == LogInit /\ [][NextLog]_vars

(***************************************************************************)
(* Vocabulary of the properties.                                           *)
(***************************************************************************)
BadDomain(d) == d = 0 \/ d \notin RegisteredVMs
BadPort(p)   == p \notin 0..4

Done(c)     == pc[c] = "done"
Returned(c) == pc[c] = "done" /\ ~crashed[c]
KeyOf(c)    == <<call[c].domid, call[c].vgt_port>>

RECURSIVE Reverse(_)
Reverse(t) == IF t = <<>> THEN <<>> ELSE Reverse(Tail(t)) \o <<Head(t)>>

\* A text without its leading and trailing white space.
Trim(t) == Reverse(SkipSpace(Reverse(SkipSpace(t))))

\* The port's connection attribute reads "connected".
Plugged(k) == Trim(connection[k]) = T_connected

IsDisconnectWrite(w) == w.attr = "connection" /\ w.data = FormatLine(T_disconnect)
IsConnectWrite(w)    == w.attr = "connection" /\ w.data = FormatLine(T_connect)

\* The attributes written by the call so far, in order.
AttrsOf(log) == [i \in 1..Len(log) |-> log[i].attr]

\* The call's writes after the disconnect of the implicit unplug, if any.
AfterUnplug(log) ==
    IF log # <<>> /\ IsDisconnectWrite(log[1]) THEN Tail(log) ELSE log

(***************************************************************************)
(* C1: a plug or unplug whose domain is 0 or unregistered, or whose        *)
(* virtual port (for plug also the physical port) is not one of 0..4,      *)
(* returns -EINVAL and has issued no write to any attribute.               *)
(* Violated: on an invalid port the error message is formatted with a %s   *)
(* conversion fed the port ordinal, and the call may end abnormally        *)
(* instead of returning.                                                   *)
(***************************************************************************)
C1_InvalidArgumentRejected ==
    \A c \in Callers :
        ( /\ Done(c)
          /\ call[c].op \in {"plug", "unplug"}
          /\ \/ BadDomain(call[c].domid)
             \/ BadPort(call[c].vgt_port)
             \/ call[c].op = "plug" /\ BadPort(call[c].pgt_port) )
        => /\ ~crashed[c]
           /\ ret[c] = -EINVAL
           /\ wlog[c] = <<>>

(***************************************************************************)
(* C2: when igvt_plug_display has returned 0, the next call,               *)
(* igvt_port_plugged_p on the same domain and port, returns 1.  Stated     *)
(* for a query whose own fopen and fscanf succeed.                         *)
(* Violated: the result of writing "connect" is not looked at, so plug     *)
(* returns 0 also when the write did not take effect.                      *)
(***************************************************************************)
C2_PlugThenQuery ==
    \A c \in Callers :
        ( /\ Returned(c)
          /\ call[c].op = "plugged_p"
          /\ qres[c].io \in {"ok", "overflow"}
          /\ prev[c] = [op |-> "plug", domid |-> call[c].domid,
                        vgt_port |-> call[c].vgt_port] )
        => ret[c] = 1

(***************************************************************************)
(* C3: when igvt_plug_display returns after its argument checks, the port  *)
(* is either connected with port_override naming the requested physical    *)
(* port and edid holding this call's patched EDID, or it is unplugged; in  *)
(* particular it is never left connected while port_override or edid       *)
(* differ from the values with which it was connected.  The formula is     *)
(* that last sentence, for a plug that found the port plugged.             *)
(* Violated: the implicit unplug's failure is dropped, so a later failure  *)
(* leaves a connected port with attributes of two different plugs.         *)
(***************************************************************************)
C3_ConnectedAsRequestedOrUnplugged ==
    \A c \in Callers :
        ( /\ Returned(c)
          /\ call[c].op = "plug"
          /\ qres[c].ret = 1
          /\ Plugged(KeyOf(c)) )
        => <<port_override[KeyOf(c)], edid[KeyOf(c)]>> = connectedWith[KeyOf(c)]

(***************************************************************************)
(* C4: in a plug that found the port plugged, a write of "disconnect"      *)
(* comes before every write of port_override, of edid and of "connect".    *)
(* Violated: when the implicit unplug cannot open the connection           *)
(* attribute nothing is written and the plug goes on.                      *)
(***************************************************************************)
C4_DisconnectFirst ==
    \A c \in Callers :
        ( /\ call[c].op = "plug"
          /\ qres[c].ret = 1 )
        => \A i \in 1..Len(wlog[c]) :
              ~IsDisconnectWrite(wlog[c][i])
              => \E j \in 1..(i - 1) : IsDisconnectWrite(wlog[c][j])

(***************************************************************************)
(* C5: every write to the edid attribute carries at most 128 bytes; for a  *)
(* buffer of 128 or 256 bytes it carries exactly the first 128 bytes of    *)
(* the patched buffer.                                                     *)
(***************************************************************************)
C5_EdidWriteIs128Bytes ==
    \A c \in Callers : \A i \in 1..Len(wlog[c]) :
        wlog[c][i].attr = "edid"
        => /\ Cardinality(DOMAIN wlog[c][i].data) <= EDID_BLOCK
           /\ call[c].edid_size >= EDID_BLOCK
              => LET patched == _filter_edid(call[c].edid_in, call[c].edid_size,
                                             is_port_digital(call[c].vgt_port))
                 IN  wlog[c][i].data = [k \in 0..(EDID_BLOCK - 1) |-> patched[k]]

C5_Witness ==
    \E c \in Callers : \E i \in 1..Len(wlog[c]) :
        /\ wlog[c][i].attr = "edid"
        /\ call[c].edid_size = 256
        /\ Cardinality(DOMAIN call[c].edid_in) = 256

(***************************************************************************)
(* C6: a plug in which the fopen of port_override, edid or connection      *)
(* fails returns -ENODEV, has issued the writes of the steps before the    *)
(* failing one and none of a later step (never "connect"), and leaves in   *)
(* the tree what the earlier writes stored.                                *)
(***************************************************************************)
C6_OpenFailureAborts ==
    \A c \in Callers :
        ( /\ Done(c)
          /\ call[c].op = "plug"
          /\ openErr[c] # "none" )
        => /\ ~crashed[c]
           /\ ret[c] = -ENODEV
           /\ AttrsOf(AfterUnplug(wlog[c])) =
                 ( IF openErr[c] = "port_override" THEN <<>>
                   ELSE IF openErr[c] = "edid" THEN <<"port_override">>
                   ELSE <<"port_override", "edid">> )
           /\ \A i \in 1..Len(wlog[c]) :
                 /\ ~IsConnectWrite(wlog[c][i])
                 /\ (wlog[c][i].attr = "port_override" /\ wlog[c][i].ok)
                    => port_override[KeyOf(c)] = port_strings[call[c].pgt_port]
                 /\ (wlog[c][i].attr = "edid" /\ wlog[c][i].ok)
                    => edid[KeyOf(c)] = wlog[c][i].data

C6_Witness ==
    \E c \in Callers :
        /\ Done(c)
        /\ call[c].op = "plug"
        /\ openErr[c] = "connection"
        /\ Len(wlog[c]) = 3
        /\ wlog[c][2].ok /\ wlog[c][3].ok

(***************************************************************************)
(* C7: a plug in which a write of port_override, of the EDID bytes or of   *)
(* "connect" fails after its fopen succeeded does not return 0.            *)
(* Violated: fprintf, fwrite and fclose results never reach the return     *)
(* value.                                                                  *)
(***************************************************************************)
C7_WriteErrorsReported ==
    \A c \in Callers :
        ( /\ Returned(c)
          /\ call[c].op = "plug"
          /\ \E i \in 1..Len(wlog[c]) :
                /\ ~wlog[c][i].ok
                /\ ~IsDisconnectWrite(wlog[c][i]) )
        => ret[c] # 0

(***************************************************************************)
(* C8: when igvt_unplug_display has returned 0, a following                *)
(* igvt_port_plugged_p on the same port returns 0, and a following         *)
(* igvt_unplug_display on the same port returns 0 too and leaves the port  *)
(* unplugged.  Stated for calls whose fopen succeeds.                      *)
(* Violated: unplug returns 0 also when its write of "disconnect" did not  *)
(* take effect.                                                            *)
(***************************************************************************)
C8_UnplugThenQuery ==
    \A c \in Callers :
        ( /\ Returned(c)
          /\ prev[c] = [op |-> "unplug", domid |-> call[c].domid,
                        vgt_port |-> call[c].vgt_port] )
        => /\ (call[c].op = "plugged_p" /\ qres[c].io \in {"ok", "overflow"})
              => ret[c] = 0
           /\ (call[c].op = "unplug" /\ openErr[c] = "none")
              => ret[c] = 0 /\ ~Plugged(KeyOf(c))

(***************************************************************************)
(* C9: igvt_port_plugged_p always returns 0 or 1 and writes nothing: 0     *)
(* for an invalid domain or port and when the attribute cannot be opened   *)
(* or read, otherwise 1 exactly when the trimmed text of the connection    *)
(* attribute is "connected".                                               *)
(* Violated: the invalid-port message is formatted with %s from the port   *)
(* ordinal, and "disconnected" with its NUL does not fit c[12]: in both    *)
(* cases the call may end abnormally.                                      *)
(***************************************************************************)
C9_QueryInfallible ==
    \A c \in Callers :
        ( Done(c) /\ call[c].op = "plugged_p" )
        => /\ ~crashed[c]
           /\ wlog[c] = <<>>
           /\ ret[c] \in {0, 1}
           /\ (BadDomain(call[c].domid) \/ BadPort(call[c].vgt_port)) => ret[c] = 0
           /\ qres[c].io \in {"openfail", "eof"} => ret[c] = 0
           /\ qres[c].io \in {"ok", "overflow"}
              => (ret[c] = 1 <=> Plugged(KeyOf(c)))

(***************************************************************************)
(* C10: while _filter_edid patches a buffer whose 128 bytes sum to 0       *)
(* modulo 256, the sum is 0 modulo 256 after every write_edid_byte and at  *)
(* the end, for both values of the analog_port argument.                   *)
(***************************************************************************)
C10_ChecksumPreserved ==
    SumBytes(fin) = 0 => SumBytes(fe) = 0

C10_Witness ==
    /\ fpc = "done"
    /\ SumBytes(fin) = 0
    /\ fe # fin
    /\ fe[CHECKSUM_BYTE] # fin[CHECKSUM_BYTE]


(***************************************************************************)
(* C11: the buffer igvt_plug_display has patched has, for a digital        *)
(* virtual port (EDP, B, C, D), bit 7 of byte 20 set and bits 3-4 of byte  *)
(* 24 equal to 01, and for VGA bit 7 of byte 20 clear and bits 3-4 of byte *)
(* 24 clear.                                                               *)
(* Violated: is_port_digital(vgt_port) is handed to the parameter          *)
(* analog_port of _filter_edid, so a digital port is patched as analog     *)
(* and VGA as digital.                                                     *)
(***************************************************************************)
C11_PatchMatchesPort ==
    \A c \in Callers :
        ( call[c].op = "plug" /\ pc[c] \in {"p_edid", "p_connect"} )
        => IF call[c].vgt_port # 4
           THEN /\ BitAnd(buf[c][INPUT_BYTE], 128) = 128
                /\ BitAnd(buf[c][FEATURE_BYTE], 24) = 8
           ELSE /\ BitAnd(buf[c][INPUT_BYTE], 128) = 0
                /\ BitAnd(buf[c][FEATURE_BYTE], 24) = 0


(***************************************************************************)
(* Vocabulary of the EDID properties.                                      *)
(***************************************************************************)
\* The little-endian 16-bit value at an offset of a buffer.
Le16(e, off) == e[off] + 256 * e[off + 1]

DescriptorOffsets == {54, 72, 90, 108}

\* The offsets of the clock bytes of the descriptors whose clock exceeds 16000.
CappedBytes(e) ==
    UNION { {off, off + 1} : off \in {o \in DescriptorOffsets : Le16(e, o) > 16000} }

(***************************************************************************)
(* C12: after _filter_edid each of the four timing descriptors (offsets    *)
(* 54, 72, 90, 108) has a little-endian pixel clock of at most 16000: a    *)
(* clock that was above 16000 is exactly 16000 (bytes 0x80, 0x3E), and a   *)
(* clock that was at most 16000 has both of its bytes unchanged.           *)
(***************************************************************************)
C12_PixelClockCapped ==
    fpc = "done"
    => \A off \in DescriptorOffsets :
          /\ Le16(fe, off) <= 16000
          /\ Le16(fin, off) > 16000 => (fe[off] = 128 /\ fe[off + 1] = 62)
          /\ Le16(fin, off) <= 16000
             => (fe[off] = fin[off] /\ fe[off + 1] = fin[off + 1])

C12_Witness ==
    /\ fpc = "done"
    /\ Le16(fin, 54) = 16001 /\ Le16(fe, 54) = 16000
    /\ Le16(fin, 90) > 16000
    /\ Le16(fin, 108) = 5000 /\ Le16(fe, 108) = 5000

(***************************************************************************)
(* C13: _filter_edid is idempotent: patching the patched buffer again      *)
(* with the same argument gives the same buffer, byte for byte, checksum   *)
(* byte included.                                                          *)
(***************************************************************************)
C13_PatchIdempotent ==
    fpc = "done" => _filter_edid(fe, EDID_BLOCK, fanalog) = fe

C13_Witness ==
    /\ fpc = "done"
    /\ FlagBranch(fin, fanalog) # "N"
    /\ fe[INPUT_BYTE] # fin[INPUT_BYTE]
    /\ fe[FEATURE_BYTE] # fin[FEATURE_BYTE]
    /\ Le16(fin, 54) > 16000
    /\ fe[CHECKSUM_BYTE] # fin[CHECKSUM_BYTE]

(***************************************************************************)
(* C19: _filter_edid changes nothing outside its fields: the bits that may *)
(* differ are bit 7 of byte 20, bits 3-7 of byte 24, the two clock bytes   *)
(* of a descriptor whose clock exceeded 16000, and the checksum byte;      *)
(* bits 0-6 of byte 20, every other byte below 128 and every byte from     *)
(* 128 on are unchanged, and when the digital/analog flag already matches  *)
(* the argument, byte 20 and bits 3-4 of byte 24 are unchanged.            *)
(* Violated: the reconciliation stores 0x00 or 0x80 to byte 20, which      *)
(* clears its bits 0-6.                                                    *)
(***************************************************************************)
C19_PatchFrame ==
    fpc = "done"
    => /\ DOMAIN fe = DOMAIN fin
       /\ fe[INPUT_BYTE] % 128 = fin[INPUT_BYTE] % 128
       /\ fe[FEATURE_BYTE] % 8 = fin[FEATURE_BYTE] % 8
       /\ \A k \in DOMAIN fin :
             k \notin ({INPUT_BYTE, FEATURE_BYTE, CHECKSUM_BYTE} \cup CappedBytes(fin))
             => fe[k] = fin[k]
       /\ ((fanalog # 0) = (fin[INPUT_BYTE] < 128))
          => /\ fe[INPUT_BYTE] = fin[INPUT_BYTE]
             /\ BitAnd(fe[FEATURE_BYTE], 24) = BitAnd(fin[FEATURE_BYTE], 24)

(***************************************************************************)
(* C20: after _filter_edid bits 5-7 of byte 24 are all zero, for every     *)
(* buffer, both values of the argument and whichever branch of the         *)
(* reconciliation was taken.                                               *)
(***************************************************************************)
C20_DpmsCleared ==
    fpc = "done" => fe[FEATURE_BYTE] < 32

C20_Witness ==
    /\ fpc = "done"
    /\ fin[FEATURE_BYTE] >= 224
    /\ FlagBranch(fin, fanalog) = "A"
    /\ fe[FEATURE_BYTE] = 15


(***************************************************************************)
(* C14: the two connector-name translations are inverse on the valid       *)
(* ports: igvt_translate_i915_port(igvt_translate_pgt_port(p)) = p for     *)
(* each of the five ports; and card0-DP-n and card0-HDMI-A-n (n = 1, 2, 3) *)
(* both translate to port B, C, D respectively.                            *)
(* Violated: igvt_translate_pgt_port(PORT_B) returns "card-HDMI-A-1",      *)
(* without the 0, which igvt_translate_i915_port does not recognise.       *)
(***************************************************************************)
C14_TranslationsInverse ==
    tpc = "done"
    => /\ tport \in 0..4 => tres.back = tport
       /\ tname \in {"card0-DP-1", "card0-HDMI-A-1"} => tres.port = 1
       /\ tname \in {"card0-DP-2", "card0-HDMI-A-2"} => tres.port = 2
       /\ tname \in {"card0-DP-3", "card0-HDMI-A-3"} => tres.port = 3

(***************************************************************************)
(* C15: igvt_is_valid_port_p is true for exactly the ordinals 0..4 and     *)
(* false for every other value: GVT_MAX_PORTS, negative values, and the    *)
(* value igvt_translate_i915_port returns for a name it does not know.     *)
(***************************************************************************)
C15_ValidExactlyFivePorts ==
    tpc \in {"pgt", "i915", "back", "done"}
    => /\ tres.valid <=> tport \in {0, 1, 2, 3, 4}
       /\ tpc \in {"back", "done"}
          => ( igvt_is_valid_port_p(tres.port)
               <=> tname \in {"card0-eDP-1", "card0-DP-1", "card0-HDMI-A-1", "card0-DP-2",
                              "card0-HDMI-A-2", "card0-DP-3", "card0-HDMI-A-3",
                              "card0-VGA-1"} )

C15_Witness ==
    /\ tpc = "done"
    /\ tport = 5
    /\ ~tres.valid
    /\ tname = "card0-DP-4"
    /\ tres.port = PORT_ILLEGAL
    /\ PORT_ILLEGAL = -1


(***************************************************************************)
(* Vocabulary of the ordering properties.                                  *)
(***************************************************************************)
\* Caller c issues a write in this step.
Writes(c) == Len(wlog'[c]) = Len(wlog[c]) + 1

\* The write caller c issues in this step.
Written(c) == wlog'[c][Len(wlog'[c])]

(***************************************************************************)
(* C16: with a single caller igvt_plug_display never overwrites the        *)
(* attributes of a live port: no write to port_override or edid is issued  *)
(* while the port's connection attribute reads connected, also when an     *)
(* fopen of the control channel fails.  Stated for the writes that take    *)
(* effect in a plug whose plugged-check found the port connected.          *)
(* Violated: the result of the implicit igvt_unplug_display is dropped;    *)
(* when it could not open the connection attribute the port is still       *)
(* connected and the plug writes port_override and edid all the same.      *)
(***************************************************************************)
C16_NoLiveOverwrite ==
    [][ \A c \in Callers :
          ( /\ Writes(c)
            /\ Written(c).attr \in {"port_override", "edid"}
            /\ Written(c).ok
            /\ qres[c].ret = 1 )
          => ~Plugged(KeyOf(c)) ]_vars


(***************************************************************************)
(* C17: within one igvt_plug_display call the writes come in the order     *)
(* port_override, edid, connection = "connect": "connect" is written only  *)
(* after the port_override write and then the edid write of the same call  *)
(* have been issued, it is the last write of the call, and a call that     *)
(* returns 0 has issued exactly these three after the disconnect of the    *)
(* implicit unplug, if any.                                                *)
(***************************************************************************)
C17_WriteOrder ==
    \A c \in Callers :
        call[c].op = "plug"
        => /\ \A i \in 1..Len(wlog[c]) :
                 IsConnectWrite(wlog[c][i])
                 => /\ i = Len(wlog[c])
                    /\ \E j \in 1..(i - 1), k \in 1..(i - 1) :
                          /\ j < k
                          /\ wlog[c][j].attr = "port_override"
                          /\ wlog[c][k].attr = "edid"
           /\ ( Returned(c) /\ ret[c] = 0 )
              => /\ AttrsOf(AfterUnplug(wlog[c])) = <<"port_override", "edid", "connection">>
                 /\ IsConnectWrite(wlog[c][Len(wlog[c])])

C17_Witness ==
    \E c \in Callers :
        /\ Returned(c)
        /\ call[c].op = "plug"
        /\ ret[c] = 0
        /\ Len(wlog[c]) = 4
        /\ IsDisconnectWrite(wlog[c][1])
        /\ \A i \in 1..4 : wlog[c][i].ok
        /\ Plugged(KeyOf(c))


(***************************************************************************)
(* Vocabulary of the race properties.                                      *)
(***************************************************************************)
\* The call of c is a plug that is past its plugged-check and implicit unplug.
PastCheck(c) ==
    call[c].op = "plug" /\ pc[c] \in {"p_override", "p_filter", "p_edid", "p_connect"}

\* Caller o has written "connect" in its current call or returned from a plug.
HasConnected(o) ==
    \/ \E i \in 1..Len(wlog[o]) : IsConnectWrite(wlog[o][i])
    \/ prev[o].op = "plug"

\* Caller o has written something in its current call or returned from a plug.
HasWritten(o) == wlog[o] # <<>> \/ prev[o].op = "plug"

\* The EDID bytes the call of c has written.
EdidWritten(c) == wlog[c][Len(wlog[c]) - 1].data

\* The call of c is a plug that has returned 0.
PlugDone(c) == Returned(c) /\ call[c].op = "plug" /\ ret[c] = 0

(***************************************************************************)
(* C18: the plugged-check of igvt_plug_display and the writes after it are *)
(* not atomic with respect to a second caller.  With two callers plugging  *)
(* the same port of the same domain there is an interleaving in which the  *)
(* port ends connected with port_override from one call and edid from the  *)
(* other (the witness).  The formula says that the second caller is what   *)
(* it takes, on a control channel without failures: a call past its        *)
(* plugged-check finds the port connected only when the other caller has   *)
(* connected it, and a plug that returned 0 leaves the port connected with *)
(* attributes other than its own only when the other caller has written.   *)
(***************************************************************************)
C18_RaceNeedsSecondCaller ==
    \A c \in Callers :
        /\ ( PastCheck(c) /\ Plugged(KeyOf(c)) )
           => \E o \in Callers \ {c} : HasConnected(o)
        /\ ( /\ PlugDone(c)
             /\ Plugged(KeyOf(c))
             /\ \/ port_override[KeyOf(c)] # port_strings[call[c].pgt_port]
                \/ edid[KeyOf(c)] # EdidWritten(c) )
           => \E o \in Callers \ {c} : HasWritten(o)

C18_Witness ==
    \E c \in Callers, o \in Callers :
        /\ c # o
        /\ PlugDone(c) /\ PlugDone(o)
        /\ KeyOf(c) = KeyOf(o)
        /\ Plugged(KeyOf(c))
        /\ port_override[KeyOf(c)] = port_strings[call[c].pgt_port]
        /\ port_override[KeyOf(c)] # port_strings[call[o].pgt_port]
        /\ edid[KeyOf(c)] = EdidWritten(o)
        /\ edid[KeyOf(c)] # EdidWritten(c)


(***************************************************************************)
(* Vocabulary of the foreground properties.                                *)
(***************************************************************************)
\* Entry i of glog is a read that yielded the domain asked for.
YieldsDomid(i) == glog[i].op = "read" /\ glog[i].n = 1 /\ glog[i].v = gdomid

WritesOfCall == {i \in 1..Len(glog) : glog[i].op = "write"}

(***************************************************************************)
(* C21: igvt_set_foreground_vm(domid) returns 0 only if a read of the      *)
(* foreground_vm control done during the call, after any write the call    *)
(* issued, yielded domid; it issues no write when the control already      *)
(* reads domid; for a non-zero domid whose VM does not exist it returns    *)
(* -EINVAL without a write (or a read); and it returns -EAGAIN when the    *)
(* read-back after its write does not yield domid.                         *)
(***************************************************************************)
C21_ForegroundVerified ==
    gpc = "done"
    => /\ gret = 0
          => /\ glog # <<>>
             /\ YieldsDomid(Len(glog))
             /\ \A w \in WritesOfCall : w < Len(glog)
       /\ ( glog # <<>> /\ YieldsDomid(1) ) => ( WritesOfCall = {} /\ gret = 0 )
       /\ ( gdomid # 0 /\ gdomid \notin RegisteredVMs )
          => ( gret = -EINVAL /\ glog = <<>> )
       /\ ( Len(glog) = 3 /\ ~YieldsDomid(3) ) => gret = -11
       /\ Cardinality(WritesOfCall) <= 1

C21_Witness ==
    /\ gpc = "done"
    /\ gdomid = 1
    /\ Len(glog) = 3
    /\ glog[1].n = 1 /\ glog[1].v = 10
    /\ glog[2].op = "write" /\ glog[2].ok
    /\ YieldsDomid(3)
    /\ gret = 0
    /\ foreground_vm = <<"1", "\n">>


(***************************************************************************)
(* C22: the two logger setters act on separate sinks: after                *)
(* igvt_set_error_logger(f), f is the error logger, the pointer returned   *)
(* is the error logger installed before the call and the warning logger is *)
(* unchanged; after igvt_set_warning_logger(g), g is the warning logger,   *)
(* the pointer returned is the previous warning logger and the error       *)
(* logger is unchanged.                                                    *)
(* Violated: igvt_set_error_logger stores new_logger in                    *)
(* loggers[IGVT_WARNING].                                                  *)
(***************************************************************************)
C22_SettersSeparate ==
    lpc = "done"
    => /\ lcall.op = "set_error"
          => /\ loggers[0] = lcall.arg
             /\ lret = lcall.before[0]
             /\ loggers[1] = lcall.before[1]
       /\ lcall.op = "set_warning"
          => /\ loggers[1] = lcall.arg
             /\ lret = lcall.before[1]
             /\ loggers[0] = lcall.before[0]

=============================================================================
